---- MODULE Spec2Model ----
(***************************************************************************)
(* A model of package typed (github.com/weiwenchen2022/typed): the tagged  *)
(* containers M and A over map[string]any and []any, Wrap/Unwrap, the path *)
(* resolver lookupErr and the accessors built on it.                       *)
(*                                                                         *)
(* Go maps and slices are references: a value of type any holds a dynamic  *)
(* type and, for a container, a pointer.  The model keeps a heap of        *)
(* containers and interface values [t |-> dynamic type, v |-> payload],    *)
(* where the payload of a container is its address, so that the in-place   *)
(* writes of wrapper and unwrapper are writes to the heap.                 *)
(*                                                                         *)
(* Strings the code takes apart (keys, paths) are sequences of             *)
(* one-character strings; string leaves the code only passes on are TLA+   *)
(* strings.                                                                *)
(***************************************************************************)
EXTENDS Integers, Sequences, FiniteSets, TLC

VARIABLES
    heap,   \* address -> container [kv: key -> value, el: sequence of values]
    root,   \* the value the caller holds (an M after decode, any value for Wrap)
    out,    \* what the last call returned
    heap0,  \* history: the heap right after construction
    log,    \* history: the calls made, [op, key] each (a session keeps only Unwrap)
    mode,   \* "compose", "one" (a single call), "session" (any number of calls),
            \* "conc" (two goroutines), "keys", "bulk" or "decode"
    conc    \* goroutine -> where its call is: pc, op, key, the stack of unwrapper
            \* activations, whether it wrote to the heap, and what it returned

vars == <<heap, root, out, heap0, log, mode, conc>>

---------------------------------------------------------------------------
(* Bounds of the model *)

\* nodes (containers and leaves) of a constructed tree
MaxNodes == 3
\* segments of a path
MaxSegs == 3
\* calls in a Wrap/Unwrap composition
MaxCompose == 2
\* segments of a path of a concurrent reader
MaxConcSegs == 2
\* decodes into one slot
MaxDecodes == 2

---------------------------------------------------------------------------
(* Strings *)

CharCode ==
    ("\"" :> 34) @@ ("+" :> 43) @@ ("-" :> 45) @@ ("." :> 46) @@
    ("0" :> 48) @@ ("1" :> 49) @@ ("2" :> 50) @@ ("3" :> 51) @@ ("4" :> 52) @@
    ("5" :> 53) @@ ("6" :> 54) @@ ("7" :> 55) @@ ("8" :> 56) @@ ("9" :> 57) @@
    ("a" :> 97) @@ ("b" :> 98) @@ ("c" :> 99) @@ ("x" :> 120)

IsDigit(c) == CharCode[c] >= 48 /\ CharCode[c] <= 57

RECURSIVE StrLess(_, _)
\* s < t in Go's string order (bytewise lexicographic)
StrLess(s, t) ==
    IF t = <<>> THEN FALSE
    ELSE IF s = <<>> THEN TRUE
    ELSE IF CharCode[Head(s)] # CharCode[Head(t)]
         THEN CharCode[Head(s)] < CharCode[Head(t)]
         ELSE StrLess(Tail(s), Tail(t))

RECURSIVE SortStrings(_)
\* sort.Strings over the elements of a set of strings
SortStrings(S) ==
    IF S = {} THEN <<>>
    ELSE LET k == CHOOSE k \in S : \A j \in S \ {k} : StrLess(k, j)
         IN <<k>> \o SortStrings(S \ {k})

RECURSIVE SplitAcc(_, _)
SplitAcc(s, cur) ==
    IF s = <<>> THEN <<cur>>
    ELSE IF Head(s) = "." THEN <<cur>> \o SplitAcc(Tail(s), <<>>)
    ELSE SplitAcc(Tail(s), Append(cur, Head(s)))

\* strings.Split(key, ".")
Split(s) == SplitAcc(s, <<>>)

RECURSIVE Join(_)
\* strings.Join(segs, ".")
Join(segs) ==
    IF segs = <<>> THEN <<>>
    ELSE IF Len(segs) = 1 THEN segs[1]
    ELSE segs[1] \o <<".">> \o Join(Tail(segs))

RECURSIVE DecVal(_, _)
DecVal(s, acc) ==
    IF s = <<>> THEN acc ELSE DecVal(Tail(s), 10 * acc + (CharCode[Head(s)] - 48))

\* strconv.Atoi: an optional sign, then one or more decimal digits
\* (the paths of the model are too short to leave the range of int)
Atoi(s) ==
    LET signed == s # <<>> /\ Head(s) \in {"+", "-"}
        body == IF signed THEN Tail(s) ELSE s
    IN IF body = <<>> \/ \E i \in 1..Len(body) : ~IsDigit(body[i])
       THEN [ok |-> FALSE, n |-> 0]
       ELSE [ok |-> TRUE,
             n |-> IF signed /\ Head(s) = "-" THEN 0 - DecVal(body, 0) ELSE DecVal(body, 0)]

RECURSIVE Itoa(_)
\* the decimal text of i >= 0
Itoa(i) ==
    LET d == <<"0", "1", "2", "3", "4", "5", "6", "7", "8", "9">>
    IN IF i < 10 THEN <<d[i + 1]>> ELSE Itoa(i \div 10) \o <<d[(i % 10) + 1]>>

\* fmt's %q of a string without characters to escape
Quote(s) == <<"\"">> \o s \o <<"\"">>

---------------------------------------------------------------------------
(* Values *)

Nil == 0

NilV == [t |-> "nil", v |-> 0]
BoolV(b) == [t |-> "bool", v |-> b]
\* a float64, in tenths
NumV(n) == [t |-> "float64", v |-> n]
StrV(s) == [t |-> "string", v |-> s]

Generic == {"map", "slice"}
Tagged == {"M", "A"}
Containers == Generic \cup Tagged
IsMapT(t) == t \in {"map", "M"}

\* the keys of the documents of the model
KeyNames == {<<"a">>, <<"b">>}

TimeText == "2006-01-02T15:04:05Z"
DurationText == "300ms"

\* the leaves of the documents of the model: null, true, -4.5 and two strings
Leaves == {NilV, BoolV(TRUE), NumV(0 - 45), StrV(DurationText), StrV(TimeText)}

(* A tree, as JSON text or a Go literal describes it: containers hold their
   children, [t |-> "map", v |-> key -> tree] and [t |-> "slice", v |-> <<tree>>]. *)
RECURSIVE TermsOfSize(_), Forest(_, _)
\* the generic trees with exactly n nodes
TermsOfSize(n) ==
    IF n = 1
    THEN Leaves \cup {[t |-> "map", v |-> <<>>], [t |-> "slice", v |-> <<>>]}
    ELSE LET maps == UNION {
                 {[t |-> "map",
                   v |-> [k \in S |-> f[CHOOSE i \in 1..Cardinality(S) : SortStrings(S)[i] = k]]] :
                      f \in Forest(n - 1, Cardinality(S))} :
                 S \in (SUBSET KeyNames) \ {{}}}
             slices == UNION {{[t |-> "slice", v |-> f] : f \in Forest(n - 1, m)} : m \in 1..(n - 1)}
         IN maps \cup slices

\* the sequences of m trees with n nodes in all
Forest(n, m) ==
    IF m = 0 THEN (IF n = 0 THEN {<<>>} ELSE {})
    ELSE IF n < m THEN {}
    ELSE UNION {{<<x>> \o r : x \in TermsOfSize(s), r \in Forest(n - s, m - 1)} :
                   s \in 1..(n - m + 1)}

GenericTerms == UNION {TermsOfSize(n) : n \in 1..MaxNodes}

RECURSIVE Retag(_)
\* the same tree with every container tagged
Retag(x) ==
    IF x.t = "map" THEN [t |-> "M", v |-> [k \in DOMAIN x.v |-> Retag(x.v[k])]]
    ELSE IF x.t = "slice" THEN [t |-> "A", v |-> [i \in 1..Len(x.v) |-> Retag(x.v[i])]]
    ELSE x

TaggedTerms == {Retag(x) : x \in GenericTerms}

\* the segments that name the children of a container term, in order
ChildSegs(x) ==
    IF IsMapT(x.t) THEN SortStrings(DOMAIN x.v) ELSE [i \in 1..Len(x.v) |-> Itoa(i - 1)]

Child(x, seg) == IF IsMapT(x.t) THEN x.v[seg] ELSE x.v[Atoi(seg).n + 1]

RECURSIVE CPos(_), CPosFrom(_, _)
\* the positions of the containers of a term, parents first
CPos(x) == IF x.t \in Containers THEN <<<<>>>> \o CPosFrom(x, ChildSegs(x)) ELSE <<>>

CPosFrom(x, segs) ==
    IF segs = <<>> THEN <<>>
    ELSE LET ps == CPos(Child(x, Head(segs)))
         IN [i \in 1..Len(ps) |-> <<Head(segs)>> \o ps[i]] \o CPosFrom(x, Tail(segs))

RECURSIVE Sub(_, _)
Sub(x, p) == IF p = <<>> THEN x ELSE Sub(Child(x, Head(p)), Tail(p))

(* The heap that holds a tree: one container per container of the term, each
   child container replaced by a value that points to it. *)
Alloc(x) ==
    LET ps == CPos(x)
        addr(p) == CHOOSE i \in 1..Len(ps) : ps[i] = p
        ref(c, p) == IF c.t \in Containers THEN [t |-> c.t, v |-> addr(p)] ELSE c
        cell(i) ==
            LET s == Sub(x, ps[i])
            IN IF IsMapT(s.t)
               THEN [kv |-> [k \in DOMAIN s.v |-> ref(s.v[k], Append(ps[i], k))], el |-> <<>>]
               ELSE [kv |-> <<>>,
                     el |-> [j \in 1..Len(s.v) |-> ref(s.v[j], Append(ps[i], Itoa(j - 1)))]]
    IN [h |-> [i \in 1..Len(ps) |-> cell(i)], v |-> ref(x, <<>>)]

\* the keys of the map at address x (a nil map has none)
MapKeys(h, x) == IF x = Nil THEN {} ELSE DOMAIN h[x].kv
\* len of the slice at address x
SliceLen(h, x) == IF x = Nil THEN 0 ELSE Len(h[x].el)

RECURSIVE Deep(_, _)
\* what reflect.DeepEqual compares: the tree below a value, dynamic types included
Deep(h, a) ==
    IF IsMapT(a.t) THEN [t |-> a.t, v |-> [k \in MapKeys(h, a.v) |-> Deep(h, h[a.v].kv[k])]]
    ELSE IF a.t \in Containers
         THEN [t |-> a.t, v |-> [i \in 1..SliceLen(h, a.v) |-> Deep(h, h[a.v].el[i])]]
         ELSE a

---------------------------------------------------------------------------
(* Wrap and Unwrap *)

RECURSIVE wrapper(_, _), wrapKeys(_, _, _), wrapElems(_, _, _)
\* wrapper: rewrites the containers below a in place and returns a converted
wrapper(h, a) ==
    CASE a.t = "map" -> [h |-> wrapKeys(h, a.v, MapKeys(h, a.v)), v |-> [t |-> "M", v |-> a.v]]
      [] a.t = "slice" -> [h |-> wrapElems(h, a.v, 1), v |-> [t |-> "A", v |-> a.v]]
      [] OTHER -> [h |-> h, v |-> a]

\* for k, v := range x { x[k] = wrapper(v) }
wrapKeys(h, x, ks) ==
    IF ks = {} THEN h
    ELSE LET k == CHOOSE k \in ks : TRUE
             r == wrapper(h, h[x].kv[k])
         IN wrapKeys([r.h EXCEPT ![x].kv[k] = r.v], x, ks \ {k})

\* for i, v := range x { x[i] = wrapper(v) }
wrapElems(h, x, i) ==
    IF i > SliceLen(h, x) THEN h
    ELSE LET r == wrapper(h, h[x].el[i])
         IN wrapElems([r.h EXCEPT ![x].el[i] = r.v], x, i + 1)

Wrap(h, a) == wrapper(h, a)

RECURSIVE unwrapper(_, _), unwrapKeys(_, _, _), unwrapElems(_, _, _)
\* an unwrapper that converts the container it is given and leaves the
\* containers below it as they are
unwrapperShallow(h, a) ==
    CASE a.t = "M" -> [h |-> h, v |-> [t |-> "map", v |-> a.v]]
      [] a.t = "A" -> [h |-> h, v |-> [t |-> "slice", v |-> a.v]]
      [] OTHER -> [h |-> h, v |-> a]

\* unwrapper: rewrites the containers below a in place and returns a converted
unwrapper(h, a) ==
    CASE a.t = "M" -> [h |-> unwrapKeys(h, a.v, MapKeys(h, a.v)), v |-> [t |-> "map", v |-> a.v]]
      [] a.t = "A" -> [h |-> unwrapElems(h, a.v, 1), v |-> [t |-> "slice", v |-> a.v]]
      [] OTHER -> [h |-> h, v |-> a]

\* for k, v := range x { x[k] = unwrapper(v) }
unwrapKeys(h, x, ks) ==
    IF ks = {} THEN h
    ELSE LET k == CHOOSE k \in ks : TRUE
             r == unwrapper(h, h[x].kv[k])
         IN unwrapKeys([r.h EXCEPT ![x].kv[k] = r.v], x, ks \ {k})

\* for i, v := range x { x[i] = unwrapper(v) }
unwrapElems(h, x, i) ==
    IF i > SliceLen(h, x) THEN h
    ELSE LET r == unwrapper(h, h[x].el[i])
         IN unwrapElems([r.h EXCEPT ![x].el[i] = r.v], x, i + 1)

Unwrap(h, a) == unwrapper(h, a)

---------------------------------------------------------------------------
(* The path resolver *)

\* the types a lookup is instantiated at
Types == {"any", "bool", "float64", "string", "A", "M"}

\* the zero value of E
Zero(E) ==
    CASE E = "bool" -> BoolV(FALSE)
      [] E = "float64" -> NumV(0)
      [] E = "string" -> StrV("")
      [] E = "A" -> [t |-> "A", v |-> Nil]
      [] E = "M" -> [t |-> "M", v |-> Nil]
      [] OTHER -> NilV

\* fmt's %T of a dynamic type
TypeName(t) ==
    CASE t = "nil" -> "<nil>"
      [] t = "map" -> "map[string]interface {}"
      [] t = "slice" -> "[]interface {}"
      [] t = "M" -> "typed.M"
      [] t = "A" -> "typed.A"
      [] t = "any" -> "interface {}"
      [] OTHER -> t

NoErr == [kind |-> "none", msg |-> <<>>]
\* fmt.Errorf("not found key %q", p)
ErrNotFound(p) == [kind |-> "NotFound", msg |-> <<"not found key ">> \o Quote(p)]
\* fmt.Errorf("unknown type %T", a)
ErrUnknownType(a) == [kind |-> "UnknownType", msg |-> <<"unknown type ", TypeName(a.t)>>]
\* the *strconv.NumError of a failed Atoi
ErrAtoi(k) ==
    [kind |-> "NumError", msg |-> <<"strconv.Atoi: parsing ">> \o Quote(k) \o <<": invalid syntax">>]
\* fmt.Errorf("%v", r) of the recovered panic of a failed type assertion
ErrRecovered(v, E) ==
    [kind |-> "Conversion",
     msg |-> <<"interface conversion: ",
               IF E = "any" THEN "interface" ELSE "interface {}", " is ",
               IF v.t = "nil" THEN "nil" ELSE TypeName(v.t), ", not ", TypeName(E)>>]

\* an assertion that also takes a string for a float64
AssertsToLoosely(v, E) ==
    IF E = "any" THEN v.t # "nil" ELSE v.t = E \/ (E = "float64" /\ v.t = "string")

\* whether the type assertion v.(E) holds: the dynamic type is E; to an
\* interface type, any value but the nil interface
AssertsTo(v, E) == IF E = "any" THEN v.t # "nil" ELSE v.t = E

\* return v.(E), nil under the deferred recover
assertE(v, E) ==
    IF AssertsTo(v, E) THEN [e |-> v, err |-> NoErr]
    ELSE [e |-> Zero(E), err |-> ErrRecovered(v, E)]

RECURSIVE traverse(_, _, _, _)
\* a loop that names the whole key, not keys[:i+1], when a key is not found
traverseNamingKey(h, a, keys, i) ==
    IF i > Len(keys) - 1 THEN [a |-> a, err |-> NoErr]
    ELSE LET k == keys[i]
             j == Atoi(k)
         IN CASE a.t = "M" ->
                   IF k \in MapKeys(h, a.v)
                   THEN traverse(h, h[a.v].kv[k], keys, i + 1)
                   ELSE [a |-> NilV, err |-> ErrNotFound(Join(keys))]
              [] a.t = "A" ->
                   IF ~j.ok THEN [a |-> a, err |-> ErrAtoi(k)]
                   ELSE IF j.n < 0 \/ j.n >= SliceLen(h, a.v)
                        THEN [a |-> a, err |-> ErrNotFound(Join(keys))]
                        ELSE traverse(h, h[a.v].el[j.n + 1], keys, i + 1)
              [] OTHER -> [a |-> a, err |-> ErrUnknownType(a)]

\* the loop over keys[:len(keys)-1], from its i-th round on
traverse(h, a, keys, i) ==
    IF i > Len(keys) - 1 THEN [a |-> a, err |-> NoErr]
    ELSE LET k == keys[i]
             j == Atoi(k)
         IN CASE a.t = "M" ->
                   IF k \in MapKeys(h, a.v)
                   THEN traverse(h, h[a.v].kv[k], keys, i + 1)
                   ELSE [a |-> NilV, err |-> ErrNotFound(Join(SubSeq(keys, 1, i)))]
              [] a.t = "A" ->
                   IF ~j.ok THEN [a |-> a, err |-> ErrAtoi(k)]
                   ELSE IF j.n < 0 \/ j.n >= SliceLen(h, a.v)
                        THEN [a |-> a, err |-> ErrNotFound(Join(SubSeq(keys, 1, i)))]
                        ELSE traverse(h, h[a.v].el[j.n + 1], keys, i + 1)
              [] OTHER -> [a |-> a, err |-> ErrUnknownType(a)]

\* a last step that does not look at the error of Atoi, and so takes a key
\* that is no number for index 0
finalIgnoringAtoi(h, x, key, lastKey, E) ==
    LET i == Atoi(lastKey)
    IN CASE x.t = "M" ->
              IF lastKey \in MapKeys(h, x.v)
              THEN assertE(h[x.v].kv[lastKey], E)
              ELSE [e |-> Zero(E), err |-> ErrNotFound(key)]
         [] x.t = "A" ->
              IF i.n < 0 \/ i.n >= SliceLen(h, x.v)
              THEN [e |-> Zero(E), err |-> ErrNotFound(key)]
              ELSE assertE(h[x.v].el[i.n + 1], E)
         [] OTHER -> [e |-> Zero(E), err |-> ErrUnknownType(x)]

\* the last key, looked up in the node the loop ended at
final(h, x, key, lastKey, E) ==
    LET i == Atoi(lastKey)
    IN CASE x.t = "M" ->
              IF lastKey \in MapKeys(h, x.v)
              THEN assertE(h[x.v].kv[lastKey], E)
              ELSE [e |-> Zero(E), err |-> ErrNotFound(key)]
         [] x.t = "A" ->
              IF ~i.ok THEN [e |-> Zero(E), err |-> ErrAtoi(lastKey)]
              ELSE IF i.n < 0 \/ i.n >= SliceLen(h, x.v)
                   THEN [e |-> Zero(E), err |-> ErrNotFound(key)]
                   ELSE assertE(h[x.v].el[i.n + 1], E)
         [] OTHER -> [e |-> Zero(E), err |-> ErrUnknownType(x)]

lookupErr(h, a, key, E) ==
    LET keys == Split(key)
        tr == traverse(h, a, keys, 1)
    IN IF tr.err # NoErr THEN [e |-> Zero(E), err |-> tr.err]
       ELSE final(h, tr.a, key, keys[Len(keys)], E)

\* lookup: panics with the error
lookup(h, a, key, E) ==
    LET r == lookupErr(h, a, key, E)
    IN [e |-> r.e, panic |-> r.err # NoErr, err |-> r.err]

\* a lookupOK whose flag is false only for a key that is not found
lookupOKUnlessNotFound(h, a, key, E) ==
    LET r == lookupErr(h, a, key, E)
    IN [e |-> r.e, ok |-> r.err.kind # "NotFound"]

\* lookupOK: err == nil as the flag
lookupOK(h, a, key, E) ==
    LET r == lookupErr(h, a, key, E)
    IN [e |-> r.e, ok |-> r.err = NoErr]

---------------------------------------------------------------------------
(* What a call returns: the heap it leaves, its result, the flag of an OK
   accessor, and whether it panicked (then with which error). *)

Ret(h, val) == [h |-> h, val |-> val, ok |-> TRUE, panic |-> FALSE, err |-> NoErr]
RetOK(h, val, ok) == [h |-> h, val |-> val, ok |-> ok, panic |-> FALSE, err |-> NoErr]
Panic(h, err) == [h |-> h, val |-> NilV, ok |-> FALSE, panic |-> TRUE, err |-> err]

\* the conversions int(f) and int64(f) of a float64 kept in tenths: towards zero
Trunc(n) == IF n >= 0 THEN n \div 10 ELSE 0 - ((0 - n) \div 10)
IntV(T, n) == [t |-> T, v |-> n]

\* (*time.Time).UnmarshalJSON of the quoted string: RFC 3339 or an error
ParseTime(s) ==
    IF s = TimeText THEN [ok |-> TRUE, v |-> [t |-> "time.Time", v |-> 1136214245]]
    ELSE [ok |-> FALSE, v |-> [t |-> "time.Time", v |-> 0]]
ErrTime(s) == [kind |-> "ParseError", msg |-> <<"parsing time ", s>>]

\* time.ParseDuration: nanoseconds or an error
ParseDuration(s) ==
    IF s = DurationText THEN [ok |-> TRUE, v |-> [t |-> "time.Duration", v |-> 300000000]]
    ELSE [ok |-> FALSE, v |-> [t |-> "time.Duration", v |-> 0]]
ErrDuration(s) == [kind |-> "ParseError", msg |-> <<"time: invalid duration ", s>>]

\* strconv.FormatFloat(f, 'f', -1, 64) of a float64 kept in tenths
FormatFloat(n) ==
    LET m == IF n < 0 THEN 0 - n ELSE n
    IN (IF n < 0 THEN <<"-">> ELSE <<>>) \o Itoa(m \div 10)
       \o (IF m % 10 = 0 THEN <<>> ELSE <<".">> \o Itoa(m % 10))

RECURSIVE Marshal(_, _), MarshalKeys(_, _, _), MarshalElems(_, _, _)
\* json.Marshal, as a sequence of tokens: a map with its keys sorted
Marshal(h, v) ==
    CASE v.t = "nil" -> <<"null">>
      [] v.t = "bool" -> IF v.v THEN <<"true">> ELSE <<"false">>
      [] v.t = "float64" -> FormatFloat(v.v)
      [] v.t = "string" -> <<"\"", v.v, "\"">>
      [] IsMapT(v.t) ->
           IF v.v = Nil THEN <<"null">>
           ELSE <<"{">> \o MarshalKeys(h, v.v, SortStrings(MapKeys(h, v.v))) \o <<"}">>
      [] OTHER ->
           IF v.v = Nil THEN <<"null">>
           ELSE <<"[">> \o MarshalElems(h, v.v, 1) \o <<"]">>

MarshalKeys(h, x, ks) ==
    IF ks = <<>> THEN <<>>
    ELSE Quote(Head(ks)) \o <<":">> \o Marshal(h, h[x].kv[Head(ks)])
         \o (IF Len(ks) > 1 THEN <<",">> ELSE <<>>) \o MarshalKeys(h, x, Tail(ks))

MarshalElems(h, x, i) ==
    IF i > SliceLen(h, x) THEN <<>>
    ELSE Marshal(h, h[x].el[i])
         \o (IF i < SliceLen(h, x) THEN <<",">> ELSE <<>>) \o MarshalElems(h, x, i + 1)

RawV(b) == [t |-> "json.RawMessage", v |-> b]
nullRawMessage == RawV(<<"null">>)

---------------------------------------------------------------------------
(* The accessors of M *)

Exists(h, m, key) == Ret(h, BoolV(lookupOK(h, m, key, "any").ok))

IsNumber(h, m, key) == Ret(h, BoolV(lookupOK(h, m, key, "float64").ok))

Bool(h, m, key) ==
    LET r == lookup(h, m, key, "bool")
    IN IF r.panic THEN Panic(h, r.err) ELSE Ret(h, r.e)

BoolOK(h, m, key) ==
    LET r == lookupOK(h, m, key, "bool")
    IN RetOK(h, r.e, r.ok)

AsInt(h, m, key) ==
    LET r == lookup(h, m, key, "float64")
    IN IF r.panic THEN Panic(h, r.err) ELSE Ret(h, IntV("int", Trunc(r.e.v)))

AsIntOK(h, m, key) ==
    LET r == lookupOK(h, m, key, "float64")
    IN RetOK(h, IntV("int", Trunc(r.e.v)), r.ok)

AsInt64(h, m, key) ==
    LET r == lookup(h, m, key, "float64")
    IN IF r.panic THEN Panic(h, r.err) ELSE Ret(h, IntV("int64", Trunc(r.e.v)))

AsInt64OK(h, m, key) ==
    LET r == lookupOK(h, m, key, "float64")
    IN RetOK(h, IntV("int64", Trunc(r.e.v)), r.ok)

Float(h, m, key) ==
    LET r == lookup(h, m, key, "float64")
    IN IF r.panic THEN Panic(h, r.err) ELSE Ret(h, r.e)

FloatOK(h, m, key) ==
    LET r == lookupOK(h, m, key, "float64")
    IN RetOK(h, r.e, r.ok)

StringValue(h, m, key) ==
    LET r == lookup(h, m, key, "string")
    IN IF r.panic THEN Panic(h, r.err) ELSE Ret(h, r.e)

StringValueOK(h, m, key) ==
    LET r == lookupOK(h, m, key, "string")
    IN RetOK(h, r.e, r.ok)

AsTime(h, m, key) ==
    LET r == lookup(h, m, key, "string")
        t == ParseTime(r.e.v)
    IN IF r.panic THEN Panic(h, r.err)
       ELSE IF ~t.ok THEN Panic(h, ErrTime(r.e.v))
       ELSE Ret(h, t.v)

AsTimeOK(h, m, key) ==
    LET r == lookupOK(h, m, key, "string")
        t == ParseTime(r.e.v)
    IN IF ~r.ok THEN RetOK(h, [t |-> "time.Time", v |-> 0], FALSE)
       ELSE RetOK(h, t.v, t.ok)

AsDuration(h, m, key) ==
    LET r == lookup(h, m, key, "string")
        d == ParseDuration(r.e.v)
    IN IF r.panic THEN Panic(h, r.err)
       ELSE IF ~d.ok THEN Panic(h, ErrDuration(r.e.v))
       ELSE Ret(h, d.v)

AsDurationOK(h, m, key) ==
    LET r == lookupOK(h, m, key, "string")
        d == ParseDuration(r.e.v)
    IN IF ~r.ok THEN RetOK(h, [t |-> "time.Duration", v |-> 0], FALSE)
       ELSE RetOK(h, d.v, d.ok)

Array(h, m, key) ==
    LET r == lookup(h, m, key, "A")
    IN IF r.panic THEN Panic(h, r.err) ELSE Ret(h, r.e)

ArrayOK(h, m, key) ==
    LET r == lookupOK(h, m, key, "A")
    IN RetOK(h, r.e, r.ok)

Document(h, m, key) ==
    LET r == lookup(h, m, key, "M")
    IN IF r.panic THEN Panic(h, r.err) ELSE Ret(h, r.e)

DocumentOK(h, m, key) ==
    LET r == lookupOK(h, m, key, "M")
    IN RetOK(h, r.e, r.ok)

\* unwrapper(lookup[M](m, key)).(map[string]any)
Map(h, m, key) ==
    LET r == lookup(h, m, key, "M")
        u == unwrapper(h, r.e)
    IN IF r.panic THEN Panic(h, r.err)
       ELSE IF u.v.t # "map" THEN Panic(u.h, ErrRecovered(u.v, "map"))
       ELSE Ret(u.h, u.v)

\* unwrapper(m2).(map[string]any), ok: m2 is the nil M when ok is false
MapOK(h, m, key) ==
    LET r == lookupOK(h, m, key, "M")
        u == unwrapper(h, r.e)
    IN IF u.v.t # "map" THEN Panic(u.h, ErrRecovered(u.v, "map"))
       ELSE RetOK(u.h, u.v, r.ok)

\* a RawMessage that encodes documents only
RawMessageOfDocument(h, m, key) ==
    LET r == lookupOK(h, m, key, "M")
    IN IF ~r.ok THEN Ret(h, nullRawMessage) ELSE Ret(h, RawV(Marshal(h, r.e)))

\* RawMessage: nullRawMessage when the lookup fails, else json.Marshal of
\* the value (which does not fail for a decoded value)
RawMessage(h, m, key) ==
    LET r == lookupOK(h, m, key, "any")
    IN IF ~r.ok THEN Ret(h, nullRawMessage) ELSE Ret(h, RawV(Marshal(h, r.e)))

\* M.Any (Any itself is an operator of module TLC)
AnyValue(h, m, key) ==
    LET r == lookup(h, m, key, "any")
        u == unwrapper(h, r.e)
    IN IF r.panic THEN Panic(h, r.err) ELSE Ret(u.h, u.v)

AnyOK(h, m, key) ==
    LET r == lookupOK(h, m, key, "any")
        u == unwrapper(h, r.e)
    IN RetOK(u.h, u.v, r.ok)

---------------------------------------------------------------------------
(* Construction *)

\* the JSON objects of the model
\* a document that holds a document of two keys
TwoKeyTerms ==
    {[t |-> "map", v |-> (<<"a">> :> [t |-> "map", v |-> (<<"a">> :> x @@ <<"b">> :> y)])] :
        x, y \in {NilV, NumV(0 - 45)}}

Documents == {x \in GenericTerms : x.t = "map"} \cup TwoKeyTerms

\* (*M).UnmarshalJSON of an object: json.Unmarshal into mm, then wrapper(mm).(M)
UnmarshalM(x) == wrapper(Alloc(x).h, Alloc(x).v)

\* the segments of the paths of the model
Segs == {<<"a">>, <<"b">>, <<"0">>, <<"-", "1">>}

RECURSIVE SeqsOfLen(_, _)
SeqsOfLen(S, n) ==
    IF n = 0 THEN {<<>>} ELSE {<<x>> \o r : x \in S, r \in SeqsOfLen(S, n - 1)}

\* the paths of the model: up to MaxSegs segments joined by "."
Paths == {Join(p) : p \in UNION {SeqsOfLen(Segs, n) : n \in 1..MaxSegs}}

NoKey == <<>>
NoOut == [val |-> NilV, ok |-> TRUE, panic |-> FALSE, err |-> NoErr]

\* the goroutines that read one document, and one that has made no call yet
Procs == {1, 2}
Idle == [pc |-> "idle", op |-> "", key |-> NoKey, stack |-> <<>>, wrote |-> FALSE,
         val |-> NilV, ok |-> TRUE, panic |-> FALSE]

InitDecoded(md) ==
    \E x \in Documents :
        /\ heap = UnmarshalM(x).h
        /\ root = UnmarshalM(x).v
        /\ heap0 = heap
        /\ out = NoOut
        /\ log = <<>>
        /\ mode = md
        /\ conc = [p \in Procs |-> Idle]

\* a call of op with key returns r: the caller sees r's result and the heap
\* as r left it.  A run in mode "one" makes one call and keeps its name and
\* all it returned; a session keeps of a call only how it ended, and whether
\* Unwrap was called on the document.
CanCall == mode = "session" \/ (mode = "one" /\ log = <<>>)

Do(op, key, r) ==
    /\ heap' = r.h
    /\ out' = IF mode = "one"
              THEN [val |-> r.val, ok |-> r.ok, panic |-> r.panic, err |-> r.err]
              ELSE [val |-> NilV, ok |-> r.ok, panic |-> r.panic, err |-> NoErr]
    /\ log' = IF mode = "one" \/ op = "Unwrap" THEN <<[op |-> op, key |-> key]>> ELSE log
    /\ UNCHANGED <<root, heap0, mode, conc>>

CallExists == CanCall /\ \E key \in Paths : Do("Exists", key, Exists(heap, root, key))
CallIsNumber == CanCall /\ \E key \in Paths : Do("IsNumber", key, IsNumber(heap, root, key))
CallBool == CanCall /\ \E key \in Paths : Do("Bool", key, Bool(heap, root, key))
CallBoolOK == CanCall /\ \E key \in Paths : Do("BoolOK", key, BoolOK(heap, root, key))
CallAsInt == CanCall /\ \E key \in Paths : Do("AsInt", key, AsInt(heap, root, key))
CallAsIntOK == CanCall /\ \E key \in Paths : Do("AsIntOK", key, AsIntOK(heap, root, key))
CallAsInt64 == CanCall /\ \E key \in Paths : Do("AsInt64", key, AsInt64(heap, root, key))
CallAsInt64OK == CanCall /\ \E key \in Paths : Do("AsInt64OK", key, AsInt64OK(heap, root, key))
CallFloat == CanCall /\ \E key \in Paths : Do("Float", key, Float(heap, root, key))
CallFloatOK == CanCall /\ \E key \in Paths : Do("FloatOK", key, FloatOK(heap, root, key))
CallStringValue == CanCall /\ \E key \in Paths : Do("StringValue", key, StringValue(heap, root, key))
CallStringValueOK == CanCall /\ \E key \in Paths : Do("StringValueOK", key, StringValueOK(heap, root, key))
CallAsTime == CanCall /\ \E key \in Paths : Do("AsTime", key, AsTime(heap, root, key))
CallAsTimeOK == CanCall /\ \E key \in Paths : Do("AsTimeOK", key, AsTimeOK(heap, root, key))
CallAsDuration == CanCall /\ \E key \in Paths : Do("AsDuration", key, AsDuration(heap, root, key))
CallAsDurationOK == CanCall /\ \E key \in Paths : Do("AsDurationOK", key, AsDurationOK(heap, root, key))
CallArray == CanCall /\ \E key \in Paths : Do("Array", key, Array(heap, root, key))
CallArrayOK == CanCall /\ \E key \in Paths : Do("ArrayOK", key, ArrayOK(heap, root, key))
CallDocument == CanCall /\ \E key \in Paths : Do("Document", key, Document(heap, root, key))
CallDocumentOK == CanCall /\ \E key \in Paths : Do("DocumentOK", key, DocumentOK(heap, root, key))
CallMap == CanCall /\ \E key \in Paths : Do("Map", key, Map(heap, root, key))
CallMapOK == CanCall /\ \E key \in Paths : Do("MapOK", key, MapOK(heap, root, key))
CallRawMessage == CanCall /\ \E key \in Paths : Do("RawMessage", key, RawMessage(heap, root, key))
CallAny == CanCall /\ \E key \in Paths : Do("Any", key, AnyValue(heap, root, key))
CallAnyOK == CanCall /\ \E key \in Paths : Do("AnyOK", key, AnyOK(heap, root, key))
\* Unwrap(m) of the document the caller holds
CallUnwrap == CanCall /\ Do("Unwrap", NoKey, Ret(Unwrap(heap, root).h, Unwrap(heap, root).v))

Next ==
    \/ CallExists \/ CallIsNumber
    \/ CallBool \/ CallBoolOK
    \/ CallAsInt \/ CallAsIntOK
    \/ CallAsInt64 \/ CallAsInt64OK
    \/ CallFloat \/ CallFloatOK
    \/ CallStringValue \/ CallStringValueOK
    \/ CallAsTime \/ CallAsTimeOK
    \/ CallAsDuration \/ CallAsDurationOK
    \/ CallArray \/ CallArrayOK
    \/ CallDocument \/ CallDocumentOK
    \/ CallMap \/ CallMapOK
    \/ CallRawMessage
    \/ CallAny \/ CallAnyOK
    \/ CallUnwrap

\* a session: a decoded document and any sequence of calls on it
Init == InitDecoded("session")
Spec == Init /\ [][Next]_vars

\* a single call on a decoded document
InitOne == InitDecoded("one")
SpecOne == InitOne /\ [][Next]_vars

---------------------------------------------------------------------------
(* Compositions of Wrap and Unwrap: y := Wrap(x); z := Unwrap(y); ... *)

\* the argument of the next call: x, then what the last call returned
Cur == IF log = <<>> THEN root ELSE out.val

Ops == [i \in 1..Len(log) |-> log[i].op]

InitCompose ==
    \E x \in GenericTerms \cup TaggedTerms :
        /\ heap = Alloc(x).h
        /\ root = Alloc(x).v
        /\ heap0 = heap
        /\ out = NoOut
        /\ log = <<>>
        /\ mode = "compose"
        /\ conc = [p \in Procs |-> Idle]

Compose(op, r) ==
    /\ mode = "compose"
    /\ Len(log) < MaxCompose
    /\ heap' = r.h
    /\ out' = [val |-> r.v, ok |-> TRUE, panic |-> FALSE, err |-> NoErr]
    /\ log' = Append(log, [op |-> op, key |-> NoKey])
    /\ UNCHANGED <<root, heap0, mode, conc>>

ComposeWrap == Compose("Wrap", Wrap(heap, Cur))

ComposeUnwrap == Compose("Unwrap", Unwrap(heap, Cur))

NextCompose == ComposeWrap \/ ComposeUnwrap

SpecCompose == InitCompose /\ [][NextCompose]_vars

\* C1: Unwrap(Wrap(x)) is deeply equal to the generic tree x as it was, and
\* Wrap(Unwrap(t)) is deeply equal to the fully tagged tree t as it was.
C1_RoundTrip ==
    /\ (root.t \notin Tagged /\ Ops = <<"Wrap", "Unwrap">>) => Deep(heap, out.val) = Deep(heap0, root)
    /\ (root.t \notin Generic /\ Ops = <<"Unwrap", "Wrap">>) => Deep(heap, out.val) = Deep(heap0, root)

\* a nested generic tree has gone through Wrap, which tagged it, and then Unwrap
C1_Witness ==
    /\ Ops = <<"Wrap", "Unwrap">>
    /\ root.t = "map"
    /\ \E k \in MapKeys(heap0, root.v) : heap0[root.v].kv[k].t \in Generic
    /\ out.val.t = "map"

---------------------------------------------------------------------------
(* Walking a tagged tree *)

Stuck == [t |-> "stuck", v |-> 0]

RECURSIVE NodeAt(_, _, _, _)
\* the value reached from a along segs[i], segs[i+1], ..., each the key of an
\* entry of a document or an index within an array; Stuck when one is not
NodeAt(h, a, segs, i) ==
    IF i > Len(segs) THEN a
    ELSE IF a.t = "M"
         THEN IF segs[i] \in MapKeys(h, a.v) THEN NodeAt(h, h[a.v].kv[segs[i]], segs, i + 1)
              ELSE Stuck
    ELSE IF a.t = "A"
         THEN IF Atoi(segs[i]).ok /\ Atoi(segs[i]).n >= 0 /\ Atoi(segs[i]).n < SliceLen(h, a.v)
              THEN NodeAt(h, h[a.v].el[Atoi(segs[i]).n + 1], segs, i + 1)
              ELSE Stuck
    ELSE Stuck

---------------------------------------------------------------------------
(* Two goroutines read one document.  A lookup is one step; unwrapper runs
   one loop iteration, one call or one return at a time. *)

ConcSegs == {<<"a">>, <<"b">>, <<"0">>}
ConcPaths == {Join(p) : p \in UNION {SeqsOfLen(ConcSegs, n) : n \in 1..MaxConcSegs}}

InitConc ==
    \E x \in Documents :
        /\ heap = UnmarshalM(x).h
        /\ root = UnmarshalM(x).v
        /\ heap0 = heap
        /\ out = NoOut
        /\ log = <<>>
        /\ mode = "conc"
        /\ conc = [p \in Procs |-> Idle]

\* entry k of the container at address c of type t
Entry(h, c, t, k) == IF t = "M" THEN h[c].kv[k] ELSE h[c].el[k]
SetEntry(h, c, t, k, v) ==
    IF t = "M" THEN [h EXCEPT ![c].kv[k] = v] ELSE [h EXCEPT ![c].el[k] = v]

\* the activation of unwrapper(a) for a tagged container a, called for entry
\* at of the caller's container: todo is what the range loop has yet to visit
Frame(h, a, at) ==
    [a |-> a.v, t |-> a.t, at |-> at,
     todo |-> IF a.t = "M" THEN MapKeys(h, a.v) ELSE 1..SliceLen(h, a.v)]

Top(p) == conc[p].stack[Len(conc[p].stack)]

\* the call of p returns r
Finish(p, op, key, r) ==
    conc' = [conc EXCEPT ![p] = [pc |-> "done", op |-> op, key |-> key, stack |-> <<>>,
                                 wrote |-> conc[p].wrote,
                                 val |-> r.val, ok |-> r.ok, panic |-> r.panic]]

\* p goes from the lookup into unwrapper(e)
Enter(p, op, key, e) ==
    IF e.t \in Tagged /\ e.v # Nil
    THEN conc' = [conc EXCEPT ![p] = [Idle EXCEPT !.pc = "unwrap", !.op = op, !.key = key,
                                            !.stack = <<Frame(heap, e, NoKey)>>]]
    ELSE Finish(p, op, key, Ret(heap, unwrapper(heap, e).v))

ConcExists(p) ==
    /\ mode = "conc" /\ conc[p].pc = "idle"
    /\ \E key \in ConcPaths : Finish(p, "Exists", key, Exists(heap, root, key))
    /\ UNCHANGED <<heap, root, out, heap0, log, mode>>

ConcDocument(p) ==
    /\ mode = "conc" /\ conc[p].pc = "idle"
    /\ \E key \in ConcPaths : Finish(p, "Document", key, Document(heap, root, key))
    /\ UNCHANGED <<heap, root, out, heap0, log, mode>>

\* Any: lookup[any](m, key), then unwrapper of what it found
ConcAny(p) ==
    /\ mode = "conc" /\ conc[p].pc = "idle"
    /\ \E key \in ConcPaths :
          LET r == lookup(heap, root, key, "any")
          IN IF r.panic THEN Finish(p, "Any", key, Panic(heap, r.err))
             ELSE Enter(p, "Any", key, r.e)
    /\ UNCHANGED <<heap, root, out, heap0, log, mode>>

\* Map: lookup[M](m, key), then unwrapper of what it found
ConcMap(p) ==
    /\ mode = "conc" /\ conc[p].pc = "idle"
    /\ \E key \in ConcPaths :
          LET r == lookup(heap, root, key, "M")
          IN IF r.panic THEN Finish(p, "Map", key, Panic(heap, r.err))
             ELSE Enter(p, "Map", key, r.e)
    /\ UNCHANGED <<heap, root, out, heap0, log, mode>>

\* the entries the range loop of a frame may visit next: a map is ranged in
\* no fixed order, a slice from its first element on
NextOf(f) ==
    IF f.t = "M" THEN f.todo ELSE {k \in f.todo : \A j \in f.todo : k <= j}

\* the loop of p's innermost unwrapper comes to a tagged container and calls
\* unwrapper on it
UnwrapCall(p) ==
    /\ mode = "conc" /\ conc[p].pc = "unwrap"
    /\ \E k \in NextOf(Top(p)) :
          LET v == Entry(heap, Top(p).a, Top(p).t, k)
          IN /\ v.t \in Tagged
             /\ conc' = [conc EXCEPT ![p].stack = Append(@, Frame(heap, v, k))]
    /\ UNCHANGED <<heap, root, out, heap0, log, mode>>

\* the loop comes to anything else: unwrapper returns it as it is, and the
\* loop stores it where it was, x[k] = v
UnwrapStore(p) ==
    /\ mode = "conc" /\ conc[p].pc = "unwrap"
    /\ \E k \in NextOf(Top(p)) :
          LET f == Top(p)
              v == Entry(heap, f.a, f.t, k)
          IN /\ v.t \notin Tagged
             /\ heap' = SetEntry(heap, f.a, f.t, k, v)
             /\ conc' = [conc EXCEPT ![p].wrote = TRUE,
                                     ![p].stack[Len(conc[p].stack)].todo = @ \ {k}]
    /\ UNCHANGED <<root, out, heap0, log, mode>>

\* the loop of p's innermost unwrapper is over: it returns its container
\* untagged, which the caller's loop stores, x[k] = unwrapper(v), or, with
\* no caller left, the accessor returns
UnwrapReturn(p) ==
    /\ mode = "conc" /\ conc[p].pc = "unwrap"
    /\ Top(p).todo = {}
    /\ LET f == Top(p)
           n == Len(conc[p].stack)
           u == [t |-> IF f.t = "M" THEN "map" ELSE "slice", v |-> f.a]
       IN IF n = 1
          THEN /\ Finish(p, conc[p].op, conc[p].key, Ret(heap, u))
               /\ heap' = heap
          ELSE LET g == conc[p].stack[n - 1]
               IN /\ heap' = SetEntry(heap, g.a, g.t, f.at, u)
                  /\ conc' = [conc EXCEPT ![p].wrote = TRUE,
                                          ![p].stack = [SubSeq(@, 1, n - 1) EXCEPT
                                                           ![n - 1].todo = @ \ {f.at}]]
    /\ UNCHANGED <<root, out, heap0, log, mode>>

\* the map containers a lookup of key reads
Touches(key) ==
    {NodeAt(heap, root, SubSeq(Split(key), 1, i), 1).v :
        i \in {j \in 0..(Len(Split(key)) - 1) :
                  NodeAt(heap, root, SubSeq(Split(key), 1, j), 1).t = "M"}}

\* the maps that the next step of q may write to: the one its loop stores
\* into, or the caller's when its innermost unwrapper returns
Writing(q) ==
    IF conc[q].pc # "unwrap" THEN {}
    ELSE LET n == Len(conc[q].stack)
             f == Top(q)
         IN IF f.todo # {}
            THEN {f.a : k \in {k \in NextOf(f) : f.t = "M" /\ Entry(heap, f.a, f.t, k).t \notin Tagged}}
            ELSE IF n > 1 /\ conc[q].stack[n - 1].t = "M" THEN {conc[q].stack[n - 1].a} ELSE {}

\* the maps that the next step of p may read: those on the way of a lookup,
\* or the one its loop ranges over
Reading(p) ==
    IF conc[p].pc = "idle" THEN UNION {Touches(key) : key \in ConcPaths}
    ELSE IF conc[p].pc = "unwrap" /\ Top(p).t = "M" /\ Top(p).todo # {} THEN {Top(p).a}
    ELSE {}

\* a goroutine reads or writes a map while the other writes to it: the Go
\* runtime may stop the program (fatal error: concurrent map read and map
\* write), or may not notice
ConcFatal ==
    /\ mode = "conc"
    /\ \E p, q \in Procs :
          /\ p # q
          /\ Writing(q) \cap (Reading(p) \cup Writing(p)) # {}
    /\ conc' = [p \in Procs |-> [conc[p] EXCEPT !.pc = "fatal"]]
    /\ UNCHANGED <<heap, root, out, heap0, log, mode>>

NextConc ==
    \/ \E p \in Procs : ConcExists(p)
    \/ \E p \in Procs : ConcDocument(p)
    \/ \E p \in Procs : ConcAny(p)
    \/ \E p \in Procs : ConcMap(p)
    \/ \E p \in Procs : UnwrapCall(p)
    \/ \E p \in Procs : UnwrapStore(p)
    \/ \E p \in Procs : UnwrapReturn(p)
    \/ ConcFatal

SpecConc == InitConc /\ [][NextConc]_vars

---------------------------------------------------------------------------
(* What the claims speak of *)

StrictOps == {"Bool", "AsInt", "AsInt64", "Float", "StringValue", "AsTime", "AsDuration",
              "Array", "Document", "Map", "Any"}

\* the optional accessor of each strict one
OKOf(op) ==
    CASE op = "Bool" -> "BoolOK"
      [] op = "AsInt" -> "AsIntOK"
      [] op = "AsInt64" -> "AsInt64OK"
      [] op = "Float" -> "FloatOK"
      [] op = "StringValue" -> "StringValueOK"
      [] op = "AsTime" -> "AsTimeOK"
      [] op = "AsDuration" -> "AsDurationOK"
      [] op = "Array" -> "ArrayOK"
      [] op = "Document" -> "DocumentOK"
      [] op = "Map" -> "MapOK"
      [] op = "Any" -> "AnyOK"

OKOps == {OKOf(op) : op \in StrictOps}

\* the accessors that return the resolved value as it is, and the variant each asks for
PlainOps == {"Bool", "Float", "StringValue", "Array", "Document"}
VariantOf(op) ==
    CASE op \in {"Bool", "BoolOK"} -> "bool"
      [] op \in {"Float", "FloatOK", "IsNumber"} -> "float64"
      [] op \in {"StringValue", "StringValueOK"} -> "string"
      [] op \in {"Array", "ArrayOK"} -> "A"
      [] op \in {"Document", "DocumentOK"} -> "M"

\* what accessor op returns on document m of heap h
Apply(op, h, m, key) ==
    CASE op = "Exists" -> Exists(h, m, key)
      [] op = "IsNumber" -> IsNumber(h, m, key)
      [] op = "Bool" -> Bool(h, m, key)
      [] op = "BoolOK" -> BoolOK(h, m, key)
      [] op = "AsInt" -> AsInt(h, m, key)
      [] op = "AsIntOK" -> AsIntOK(h, m, key)
      [] op = "AsInt64" -> AsInt64(h, m, key)
      [] op = "AsInt64OK" -> AsInt64OK(h, m, key)
      [] op = "Float" -> Float(h, m, key)
      [] op = "FloatOK" -> FloatOK(h, m, key)
      [] op = "StringValue" -> StringValue(h, m, key)
      [] op = "StringValueOK" -> StringValueOK(h, m, key)
      [] op = "AsTime" -> AsTime(h, m, key)
      [] op = "AsTimeOK" -> AsTimeOK(h, m, key)
      [] op = "AsDuration" -> AsDuration(h, m, key)
      [] op = "AsDurationOK" -> AsDurationOK(h, m, key)
      [] op = "Array" -> Array(h, m, key)
      [] op = "ArrayOK" -> ArrayOK(h, m, key)
      [] op = "Document" -> Document(h, m, key)
      [] op = "DocumentOK" -> DocumentOK(h, m, key)
      [] op = "Map" -> Map(h, m, key)
      [] op = "MapOK" -> MapOK(h, m, key)
      [] op = "RawMessage" -> RawMessage(h, m, key)
      [] op = "Any" -> AnyValue(h, m, key)
      [] op = "AnyOK" -> AnyOK(h, m, key)

\* the single call of a run in mode "one"
Called == mode = "one" /\ log # <<>>
TheOp == log[1].op
TheKey == log[1].key
TheSegs == Split(TheKey)

\* the node that the first i segments of the call's path lead to, at construction
Reached(i) == NodeAt(heap0, root, SubSeq(TheSegs, 1, i), 1)

\* segment i of the call's path names an absent key of a document, or an index
\* outside an array
Missing(i) ==
    LET x == Reached(i - 1)
        s == TheSegs[i]
    IN \/ x.t = "M" /\ s \notin MapKeys(heap0, x.v)
       \/ x.t = "A" /\ Atoi(s).ok /\ (Atoi(s).n < 0 \/ Atoi(s).n >= SliceLen(heap0, x.v))

\* how the call ended, in the terms of the error taxonomy
Failed == out.panic \/ ~out.ok
FailedAs(kind) ==
    /\ Failed
    /\ TheOp \in StrictOps => out.err.kind = kind

---------------------------------------------------------------------------
(* Claims about a session *)

RECURSIVE FullyTagged(_, _)
\* no container below the tagged container a is untagged
FullyTagged(h, a) ==
    IF a.t = "M"
    THEN \A k \in MapKeys(h, a.v) :
             h[a.v].kv[k].t \notin Generic /\ FullyTagged(h, h[a.v].kv[k])
    ELSE IF a.t = "A"
    THEN \A i \in 1..SliceLen(h, a.v) :
             h[a.v].el[i].t \notin Generic /\ FullyTagged(h, h[a.v].el[i])
    ELSE TRUE

\* C2: after any sequence of calls on a decoded document, every container
\* reachable from the tagged root is tagged.
C2_NoPartialWrap == FullyTagged(heap, root)

\* C3: whatever calls were made on the document, every path resolves at every
\* type to what it resolved to at construction: the same value or the same
\* kind of failure.
C3_PathDeterminism ==
    (mode = "session" /\ log = <<>>) =>
        \A E \in Types, key \in Paths :
            /\ lookupErr(heap, root, key, E).err.kind = lookupErr(heap0, root, key, E).err.kind
            /\ lookupErr(heap, root, key, E).e = lookupErr(heap0, root, key, E).e

\* C4: in every interleaving of two goroutines that call read accessors on
\* one document, neither writes to a container of the document, the program
\* is not stopped for a concurrent map access, and each call returns what it
\* returns when it runs alone.
C4_ConcurrentReaders ==
    mode = "conc" =>
        \A p \in Procs :
            /\ ~conc[p].wrote
            /\ conc[p].pc # "fatal"
            /\ conc[p].pc = "done" =>
                  LET alone == Apply(conc[p].op, heap0, root, conc[p].key)
                  IN /\ conc[p].panic = alone.panic
                     /\ conc[p].ok = alone.ok
                     /\ conc[p].val = alone.val

---------------------------------------------------------------------------
(* Claims about a single call *)

\* C5: when the first segment that names an absent key or an index out of
\* range is segment i, the call fails with `not found key "s1.….si"`.
C5_PrefixNaming ==
    (Called /\ TheOp \in StrictOps) =>
        \A i \in 1..Len(TheSegs) :
            Missing(i) =>
                /\ out.panic
                /\ out.err.kind = "NotFound"
                /\ out.err.msg = <<"not found key ", "\"">> \o Join(SubSeq(TheSegs, 1, i)) \o <<"\"">>

\* a strict call whose path fails at a segment before its last
C5_Witness ==
    /\ Called /\ TheOp = "Document"
    /\ Len(TheSegs) = 3
    /\ Missing(2)
    /\ out.panic

\* C6: at an array of length n, a segment that is no base-10 integer fails as
\* InvalidIndex, one that parses to j < 0 or j >= n fails as NotFound, and
\* any other goes on with (traversal) or returns (last segment) element j.
C6_ArrayIndexing ==
    (Called /\ TheOp \in StrictOps \cup OKOps) =>
        \A i \in 1..Len(TheSegs) :
            LET x == Reached(i - 1)
                s == TheSegs[i]
                j == Atoi(s)
                el == heap0[x.v].el[j.n + 1]
                rest == Apply(TheOp, heap0, el, Join(SubSeq(TheSegs, i + 1, Len(TheSegs))))
            IN x.t = "A" =>
                 IF ~j.ok THEN FailedAs("NumError")
                 ELSE IF j.n < 0 \/ j.n >= SliceLen(heap0, x.v) THEN FailedAs("NotFound")
                 ELSE IF i < Len(TheSegs)
                      THEN /\ out.panic = rest.panic /\ out.ok = rest.ok
                           /\ out.val = rest.val
                           /\ out.err.kind = rest.err.kind
                 ELSE IF TheOp \in PlainOps \cup {OKOf(op) : op \in PlainOps}
                      THEN IF el.t = VariantOf(TheOp) THEN ~Failed /\ out.val = el
                           ELSE FailedAs("Conversion")
                 ELSE out.panic => out.err.kind \notin {"NumError", "NotFound"}

\* a call went through an array by an index within it and on to the element
C6_Witness ==
    /\ Called /\ TheOp = "DocumentOK"
    /\ Len(TheSegs) = 2
    /\ Reached(1).t = "A"
    /\ Reached(2).t = "M"
    /\ out.ok /\ out.val = Reached(2)

\* C7: a path that resolves to v, asked for as boolean, number, string, array
\* or document, returns v when v is of exactly that variant; otherwise it
\* fails as a type mismatch: the strict accessor panics, the optional one
\* returns the zero value and false.
C7_TypeStrictness ==
    (Called /\ TheOp \in PlainOps \cup {OKOf(op) : op \in PlainOps} \cup {"IsNumber"}) =>
        LET v == Reached(Len(TheSegs))
            T == VariantOf(TheOp)
            zero == CASE T = "bool" -> [t |-> "bool", v |-> FALSE]
                      [] T = "float64" -> [t |-> "float64", v |-> 0]
                      [] T = "string" -> [t |-> "string", v |-> ""]
                      [] T = "A" -> [t |-> "A", v |-> 0]
                      [] T = "M" -> [t |-> "M", v |-> 0]
        IN v # Stuck =>
             IF TheOp = "IsNumber" THEN out.val = BoolV(v.t = "float64")
             ELSE IF v.t = T THEN ~out.panic /\ out.ok /\ out.val = v
             ELSE IF TheOp \in StrictOps THEN out.panic /\ out.err.kind = "Conversion"
             ELSE ~out.panic /\ ~out.ok /\ out.val = zero

\* a string was asked for as a number through the optional accessor
C7_Witness ==
    /\ Called /\ TheOp = "FloatOK"
    /\ Reached(Len(TheSegs)).t = "string"
    /\ ~out.ok

\* C8: the optional accessor never panics, and the strict accessor panics
\* exactly when the optional one returns false; otherwise both return the
\* same value.
C8_DualMode ==
    /\ (Called /\ TheOp \in StrictOps) =>
          LET o == Apply(OKOf(TheOp), heap0, root, TheKey)
          IN /\ ~o.panic
             /\ out.panic <=> ~o.ok
             /\ ~out.panic => out.val = o.val
    /\ (Called /\ TheOp \in OKOps) =>
          LET st == CHOOSE op \in StrictOps : OKOf(op) = TheOp
              r == Apply(st, heap0, root, TheKey)
          IN /\ ~out.panic
             /\ r.panic <=> ~out.ok
             /\ out.ok => out.val = r.val

\* the optional accessor of a pair with a second conversion returned false
\* for a string that the conversion rejects
C8_Witness ==
    /\ Called /\ TheOp = "AsTimeOK"
    /\ Reached(Len(TheSegs)) = StrV(DurationText)
    /\ ~out.ok /\ ~out.panic

\* C9: Exists is true exactly when every segment of the path resolves,
\* whatever the value at the last key, a null included.
C9_ExistsIffResolves ==
    (Called /\ TheOp = "Exists") =>
        (out.val = BoolV(Reached(Len(TheSegs)) # Stuck))

RECURSIVE Json(_), JsonEntries(_, _), JsonElems(_, _)
\* the JSON text of a tree, the entries of a document by ascending key
Json(x) ==
    CASE x.t = "nil" -> <<"null">>
      [] x.t = "bool" -> IF x.v THEN <<"true">> ELSE <<"false">>
      [] x.t = "float64" ->
           (IF x.v < 0 THEN <<"-">> ELSE <<>>)
           \o Itoa((IF x.v < 0 THEN 0 - x.v ELSE x.v) \div 10)
           \o (IF x.v % 10 = 0 THEN <<>> ELSE <<".">> \o Itoa((IF x.v < 0 THEN 0 - x.v ELSE x.v) % 10))
      [] x.t = "string" -> <<"\"", x.v, "\"">>
      [] IsMapT(x.t) -> <<"{">> \o JsonEntries(x, DOMAIN x.v) \o <<"}">>
      [] OTHER -> <<"[">> \o JsonElems(x, 1) \o <<"]">>

JsonEntries(x, ks) ==
    IF ks = {} THEN <<>>
    ELSE LET k == CHOOSE k \in ks : \A j \in ks : j = k \/ StrLess(k, j)
         IN <<"\"">> \o k \o <<"\"", ":">> \o Json(x.v[k])
            \o (IF ks = {k} THEN <<>> ELSE <<",">> \o JsonEntries(x, ks \ {k}))

JsonElems(x, i) ==
    IF i > Len(x.v) THEN <<>>
    ELSE Json(x.v[i]) \o (IF i = Len(x.v) THEN <<>> ELSE <<",">> \o JsonElems(x, i + 1))

\* C10: RawMessage never fails: it returns `null` when the path does not
\* resolve or resolves to null, and otherwise the JSON encoding of the value
\* it resolves to, document keys in sorted order.
C10_RawMessage ==
    (Called /\ TheOp = "RawMessage") =>
        LET v == Reached(Len(TheSegs))
        IN /\ ~out.panic
           /\ out.val.t = "json.RawMessage"
           /\ out.val.v = IF v = Stuck \/ v.t = "nil" THEN <<"null">> ELSE Json(Deep(heap0, v))

\* RawMessage returned the encoding of a document of two keys
C10_Witness ==
    /\ Called /\ TheOp = "RawMessage"
    /\ Reached(Len(TheSegs)).t = "M"
    /\ Cardinality(MapKeys(heap0, Reached(Len(TheSegs)).v)) = 2
    /\ out.val.v # <<"null">>

---------------------------------------------------------------------------
(* Keys *)

\* a []string: the nil slice, or the strings of s
StringsV(isNil, s) == [t |-> "[]string", nil |-> isNil, s |-> s]

\* a Keys that returns the keys in the opposite of the sorted order
KeysUnsorted(h, m) ==
    IF m.v = Nil THEN Ret(h, StringsV(TRUE, <<>>))
    ELSE LET keys == SortStrings(MapKeys(h, m.v))
         IN Ret(h, StringsV(FALSE, [i \in 1..Len(keys) |-> keys[Len(keys) + 1 - i]]))

\* M.Keys: nil for the nil document, else the keys, sorted by sort.Strings
Keys(h, m) ==
    IF m.v = Nil THEN Ret(h, StringsV(TRUE, <<>>))
    ELSE Ret(h, StringsV(FALSE, SortStrings(MapKeys(h, m.v))))

\* the keys of the flat documents Keys is called on
KeyPool == {<<>>, <<"a">>, <<"a", "b">>, <<"b">>, <<"1", "0">>, <<"9">>}

\* Keys is called once, on the nil document, on a flat document over KeyPool
\* or on a decoded document
InitKeys ==
    /\ \/ heap = <<>> /\ root = [t |-> "M", v |-> Nil]
       \/ \E S \in SUBSET KeyPool, x \in {NilV, NumV(0 - 45)} :
             /\ heap = <<[kv |-> [k \in S |-> x], el |-> <<>>]>>
             /\ root = [t |-> "M", v |-> 1]
       \/ \E x \in Documents :
             /\ heap = UnmarshalM(x).h
             /\ root = UnmarshalM(x).v
    /\ heap0 = heap
    /\ out = NoOut
    /\ log = <<>>
    /\ mode = "keys"
    /\ conc = [p \in Procs |-> Idle]

CallKeys ==
    /\ mode = "keys" /\ log = <<>>
    /\ heap' = Keys(heap, root).h
    /\ out' = [val |-> Keys(heap, root).val, ok |-> TRUE, panic |-> FALSE, err |-> NoErr]
    /\ log' = <<[op |-> "Keys", key |-> NoKey]>>
    /\ UNCHANGED <<root, heap0, mode, conc>>

NextKeys == CallKeys

SpecKeys == InitKeys /\ [][NextKeys]_vars

\* C11: Keys returns each key of the document exactly once and nothing else,
\* in strictly ascending order; nil for the nil document and an empty result
\* for an empty one; and it leaves the document as it was.
C11_Keys ==
    (mode = "keys" /\ log # <<>>) =>
        LET r == out.val
        IN /\ ~out.panic
           /\ heap = heap0
           /\ r.nil <=> root.v = Nil
           /\ Len(r.s) = Cardinality(MapKeys(heap0, root.v))
           /\ {r.s[i] : i \in 1..Len(r.s)} = MapKeys(heap0, root.v)
           /\ \A i, j \in 1..Len(r.s) : i < j => StrLess(r.s[i], r.s[j])

\* Keys returned "10" before "9" among four keys or more
C11_Witness ==
    /\ mode = "keys" /\ log # <<>>
    /\ Len(out.val.s) >= 4
    /\ \E i, j \in 1..Len(out.val.s) :
          i < j /\ out.val.s[i] = <<"1", "0">> /\ out.val.s[j] = <<"9">>

---------------------------------------------------------------------------
(* The bulk converters of A *)

\* a slice of elements of type E: the nil slice, or the elements of s
SliceV(E, isNil, s) == [t |-> <<"[]", E>>, nil |-> isNil, s |-> s]

\* E(f) for a float64 f
Numeric(E, f) == IF E = "float64" THEN NumV(f.v) ELSE IntV(E, Trunc(f.v))

RECURSIVE arrayLoop(_, _, _, _, _)
\* array: for i, v := range a { s[i] = v.(E) }, the failed assertion panics
arrayLoop(h, x, i, E, s) ==
    IF i > SliceLen(h, x) THEN Ret(h, SliceV(E, FALSE, s))
    ELSE IF AssertsTo(h[x].el[i], E) THEN arrayLoop(h, x, i + 1, E, Append(s, h[x].el[i]))
    ELSE Panic(h, ErrRecovered(h[x].el[i], E))

array(h, a, E) ==
    IF a.v = Nil THEN Ret(h, SliceV(E, TRUE, <<>>)) ELSE arrayLoop(h, a.v, 1, E, <<>>)

RECURSIVE arrayOKLoop(_, _, _, _, _)
\* arrayOK: s[i], ok = v.(E); if !ok { return nil, false }
arrayOKLoop(h, x, i, E, s) ==
    IF i > SliceLen(h, x) THEN RetOK(h, SliceV(E, FALSE, s), TRUE)
    ELSE IF AssertsTo(h[x].el[i], E) THEN arrayOKLoop(h, x, i + 1, E, Append(s, h[x].el[i]))
    ELSE RetOK(h, SliceV(E, TRUE, <<>>), FALSE)

arrayOK(h, a, E) ==
    IF a.v = Nil THEN RetOK(h, SliceV(E, TRUE, <<>>), TRUE) ELSE arrayOKLoop(h, a.v, 1, E, <<>>)

RECURSIVE asNumericLoop(_, _, _, _, _)
\* asNumericArray: s[i] = E(v.(float64))
asNumericLoop(h, x, i, E, s) ==
    IF i > SliceLen(h, x) THEN Ret(h, SliceV(E, FALSE, s))
    ELSE IF AssertsTo(h[x].el[i], "float64")
         THEN asNumericLoop(h, x, i + 1, E, Append(s, Numeric(E, h[x].el[i])))
    ELSE Panic(h, ErrRecovered(h[x].el[i], "float64"))

asNumericArray(h, a, E) ==
    IF a.v = Nil THEN Ret(h, SliceV(E, TRUE, <<>>)) ELSE asNumericLoop(h, a.v, 1, E, <<>>)

RECURSIVE asNumericOKLoop(_, _, _, _, _)
\* asNumericArrayOK: f, ok = v.(float64); if !ok { return nil, false }
asNumericOKLoop(h, x, i, E, s) ==
    IF i > SliceLen(h, x) THEN RetOK(h, SliceV(E, FALSE, s), TRUE)
    ELSE IF AssertsTo(h[x].el[i], "float64")
         THEN asNumericOKLoop(h, x, i + 1, E, Append(s, Numeric(E, h[x].el[i])))
    ELSE RetOK(h, SliceV(E, TRUE, <<>>), FALSE)

asNumericArrayOK(h, a, E) ==
    IF a.v = Nil THEN RetOK(h, SliceV(E, TRUE, <<>>), TRUE)
    ELSE asNumericOKLoop(h, a.v, 1, E, <<>>)

RECURSIVE mapsLoop(_, _, _, _)
\* s := make([]map[string]any, len(documents)), then for each document
\* s[i] = unwrapper(document).(map[string]any)
mapsLoop(h, documents, i, s) ==
    IF i > Len(documents) THEN [h |-> h, s |-> s]
    ELSE LET u == unwrapper(h, documents[i])
         IN mapsLoop(u.h, documents, i + 1, Append(s, u.v))

Bools(h, a) == array(h, a, "bool")
BoolsOK(h, a) == arrayOK(h, a, "bool")
AsInts(h, a) == asNumericArray(h, a, "int")
AsIntsOK(h, a) == asNumericArrayOK(h, a, "int")
AsInt64s(h, a) == asNumericArray(h, a, "int64")
AsInt64sOK(h, a) == asNumericArrayOK(h, a, "int64")
Floats(h, a) == asNumericArray(h, a, "float64")
FloatsOK(h, a) == asNumericArrayOK(h, a, "float64")
Strings(h, a) == array(h, a, "string")
StringsOK(h, a) == arrayOK(h, a, "string")
\* A.Documents (Documents is the set of the decoded documents)
DocumentsValue(h, a) == array(h, a, "M")
DocumentsOK(h, a) == arrayOK(h, a, "M")

Maps(h, a) ==
    LET d == array(h, a, "M")
        r == mapsLoop(h, d.val.s, 1, <<>>)
    IN IF d.panic THEN d ELSE Ret(r.h, SliceV("map[string]interface {}", FALSE, r.s))

MapsOK(h, a) ==
    LET d == arrayOK(h, a, "M")
        r == mapsLoop(h, d.val.s, 1, <<>>)
    IN IF ~d.ok THEN RetOK(h, SliceV("map[string]interface {}", TRUE, <<>>), FALSE)
       ELSE RetOK(r.h, SliceV("map[string]interface {}", FALSE, r.s), TRUE)

\* (*A).UnmarshalJSON of an array: json.Unmarshal into aa, then wrapper(aa).(A)
UnmarshalA(x) == wrapper(Alloc(x).h, Alloc(x).v)

Arrays == {x \in GenericTerms : x.t = "slice"}

\* a converter is called once, on the nil array or on a decoded array
InitBulk ==
    /\ \/ heap = <<>> /\ root = [t |-> "A", v |-> Nil]
       \/ \E x \in Arrays :
             /\ heap = UnmarshalA(x).h
             /\ root = UnmarshalA(x).v
    /\ heap0 = heap
    /\ out = NoOut
    /\ log = <<>>
    /\ mode = "bulk"
    /\ conc = [p \in Procs |-> Idle]

CanBulk == mode = "bulk" /\ log = <<>>

DoBulk(op, r) ==
    /\ heap' = r.h
    /\ out' = [val |-> r.val, ok |-> r.ok, panic |-> r.panic, err |-> r.err]
    /\ log' = <<[op |-> op, key |-> NoKey]>>
    /\ UNCHANGED <<root, heap0, mode, conc>>

CallBools == CanBulk /\ DoBulk("Bools", Bools(heap, root))
CallBoolsOK == CanBulk /\ DoBulk("BoolsOK", BoolsOK(heap, root))
CallAsInts == CanBulk /\ DoBulk("AsInts", AsInts(heap, root))
CallAsIntsOK == CanBulk /\ DoBulk("AsIntsOK", AsIntsOK(heap, root))
CallAsInt64s == CanBulk /\ DoBulk("AsInt64s", AsInt64s(heap, root))
CallAsInt64sOK == CanBulk /\ DoBulk("AsInt64sOK", AsInt64sOK(heap, root))
CallFloats == CanBulk /\ DoBulk("Floats", Floats(heap, root))
CallFloatsOK == CanBulk /\ DoBulk("FloatsOK", FloatsOK(heap, root))
CallStrings == CanBulk /\ DoBulk("Strings", Strings(heap, root))
CallStringsOK == CanBulk /\ DoBulk("StringsOK", StringsOK(heap, root))
CallDocuments == CanBulk /\ DoBulk("Documents", DocumentsValue(heap, root))
CallDocumentsOK == CanBulk /\ DoBulk("DocumentsOK", DocumentsOK(heap, root))
CallMaps == CanBulk /\ DoBulk("Maps", Maps(heap, root))
CallMapsOK == CanBulk /\ DoBulk("MapsOK", MapsOK(heap, root))

NextBulk ==
    \/ CallBools \/ CallBoolsOK
    \/ CallAsInts \/ CallAsIntsOK
    \/ CallAsInt64s \/ CallAsInt64sOK
    \/ CallFloats \/ CallFloatsOK
    \/ CallStrings \/ CallStringsOK
    \/ CallDocuments \/ CallDocumentsOK
    \/ CallMaps \/ CallMapsOK

SpecBulk == InitBulk /\ [][NextBulk]_vars

\* the converters that panic, and the variant each converter asks of every
\* element
StrictBulk == {"Bools", "AsInts", "AsInt64s", "Floats", "Strings", "Documents", "Maps"}
ElemOf(op) ==
    CASE op \in {"Bools", "BoolsOK"} -> "bool"
      [] op \in {"Strings", "StringsOK"} -> "string"
      [] op \in {"Documents", "DocumentsOK", "Maps", "MapsOK"} -> "M"
      [] OTHER -> "float64"

\* what a converter makes of an element of the variant it asks for
Converted(op, v) ==
    CASE op \in {"AsInts", "AsIntsOK"} -> [t |-> "int", v |-> Trunc(v.v)]
      [] op \in {"AsInt64s", "AsInt64sOK"} -> [t |-> "int64", v |-> Trunc(v.v)]
      [] op \in {"Maps", "MapsOK"} -> [t |-> "map", v |-> v.v]
      [] OTHER -> v

\* C12: a converter returns a slice as long as the array, s[i] the conversion
\* of a[i], exactly when every element is of the variant it asks for; on a
\* mismatch the OK converter returns (nil, false) and the strict one panics;
\* the nil array converts to nil, with true from an OK converter.
C12_BulkConverters ==
    (mode = "bulk" /\ log # <<>>) =>
        LET op == log[1].op
            n == SliceLen(heap0, root.v)
            fits == \A i \in 1..n : heap0[root.v].el[i].t = ElemOf(op)
        IN IF root.v = Nil THEN ~out.panic /\ out.ok /\ out.val.nil
           ELSE IF fits
                THEN /\ ~out.panic /\ out.ok
                     /\ ~out.val.nil
                     /\ Len(out.val.s) = n
                     /\ \A i \in 1..n : out.val.s[i] = Converted(op, heap0[root.v].el[i])
           ELSE IF op \in StrictBulk THEN out.panic
           ELSE ~out.panic /\ ~out.ok /\ out.val.nil

---------------------------------------------------------------------------
(* Decoding into a slot that may hold a value already.  A JSON text is kept
   as the generic tree it encodes; the text null is NilV. *)

Texts == GenericTerms

\* the *json.UnmarshalTypeError of a text that is no value of the Go type
ErrUnmarshalType(x, T) ==
    [kind |-> "UnmarshalTypeError",
     msg |-> <<"json: cannot unmarshal ",
               CASE x.t = "map" -> "object"
                 [] x.t = "slice" -> "array"
                 [] x.t = "float64" -> "number"
                 [] OTHER -> x.t,
               " into Go value of type ", TypeName(T)>>]

\* (*M).UnmarshalJSON and (*A).UnmarshalJSON on the slot holding cur: for the
\* text null, return nil; else json.Unmarshal into a fresh mm / aa, return
\* its error or store wrapper of it into the slot
UnmarshalJSON(h, cur, x) ==
    LET T == IF cur.t = "M" THEN "map" ELSE "slice"
    IN IF x = NilV THEN [h |-> h, v |-> cur, err |-> NoErr]
       ELSE IF x.t # T THEN [h |-> h, v |-> cur, err |-> ErrUnmarshalType(x, T)]
       ELSE [h |-> wrapper(Alloc(x).h, Alloc(x).v).h,
             v |-> wrapper(Alloc(x).h, Alloc(x).v).v,
             err |-> NoErr]

\* var m M, or var a A
InitDecode ==
    /\ heap = <<>>
    /\ root \in {[t |-> "M", v |-> Nil], [t |-> "A", v |-> Nil]}
    /\ heap0 = heap
    /\ out = NoOut
    /\ log = <<>>
    /\ mode = "decode"
    /\ conc = [p \in Procs |-> Idle]

Decode(x) ==
    /\ mode = "decode" /\ Len(log) < MaxDecodes
    /\ heap' = UnmarshalJSON(heap, root, x).h
    /\ root' = UnmarshalJSON(heap, root, x).v
    /\ out' = [NoOut EXCEPT !.err = UnmarshalJSON(heap, root, x).err]
    /\ log' = Append(log, [op |-> "UnmarshalJSON",
                           key |-> IF x = NilV THEN <<"null">> ELSE <<"value">>])
    /\ UNCHANGED <<heap0, mode, conc>>

DecodeM == root.t = "M" /\ \E x \in Texts : Decode(x)

DecodeA == root.t = "A" /\ \E x \in Texts : Decode(x)

NextDecode == DecodeM \/ DecodeA

SpecDecode == InitDecode /\ [][NextDecode]_vars

\* C13: after the text null is decoded into a slot of type M or A, whatever
\* the slot held, the decode has returned no error and the slot holds an empty
\* or zero container.
C13_DecodeNull ==
    (mode = "decode" /\ log # <<>> /\ log[Len(log)].key = <<"null">>) =>
        /\ out.err = NoErr
        /\ root.v = Nil \/ (MapKeys(heap, root.v) = {} /\ SliceLen(heap, root.v) = 0)

====
